---- MODULE Spec2Model ----
(***************************************************************************)
(* Site_Checker: a single Node.js process that fetches each configured     *)
(* site, looks for an expected text fragment, mails an alert when the      *)
(* fragment is gone or the fetch fails, and re-arms a timer for the next   *)
(* check (src/index.ts, src/types.ts).                                     *)
(*                                                                         *)
(* One step of the model is one run-to-completion job of the Node event    *)
(* loop: a synchronous stretch of code together with the promise           *)
(* continuations (microtasks) it makes runnable.  The await points that    *)
(* wait for I/O (verify, fetch, res.text, sendMail) and the timers are     *)
(* the places where the environment chooses what happens next.             *)
(***************************************************************************)
EXTENDS Integers, Sequences, FiniteSets, TLC

\* ---------------------------------------------------------------- bounds
\* Total number of check cycles the model lets all sites start together.
MaxChecks == 6
\* Longest response body the fetcher hands back.
MaxBodyLen == 2

\* ------------------------------------------------------- program constants
ATTEMPTS_BEFORE_GIVING_UP == 3
MINUTES == 1000 * 60
HOURS == 1000 * 60 * 60

\* enum STATUS
COOLDOWN == 0
WAIT == 1
READY == 2
GAVE_UP == 3
STATUS == {COOLDOWN, WAIT, READY, GAVE_UP}

\* The configured sites.  The first entry has the timing of the compiled-in
\* site; the second stands for a further entry of the list.  Texts are
\* sequences of characters over a two-letter alphabet.
sites ==
    << [name |-> "LibTheatreRoom", textMatch |-> <<"a">>,
        interval |-> 5 * MINUTES, msgCooldown |-> 4 * HOURS, status |-> READY],
       [name |-> "Other", textMatch |-> <<"a", "b">>,
        interval |-> 1 * MINUTES, msgCooldown |-> 1 * HOURS, status |-> READY] >>

SiteIdx == 1..Len(sites)

\* JavaScript undefined: the value of failedAttempts[name] before the
\* registration loop assigns 0.
Undefined == -1

Alphabet == {"a", "b"}
Bodies == UNION {[1..n -> Alphabet] : n \in 0..MaxBodyLen}
StatusCodes == {200, 404}

\* How Node reacts to a promise rejection nobody handles: the default mode
\* raises it as an uncaught exception and the process exits with code 1;
\* started with --unhandled-rejections=warn it only prints a warning.
UnhandledRejectionModes == {"throw", "warn"}

VARIABLES
    envPresent,      \* MAIL_USERNAME and MAIL_APP_PASSWORD are both set
    proc,            \* position of main(): "start", "verifying", "running", "exited"
    exitCode,        \* code given to process.exit, 0 while running
    failedAttempts,  \* failedAttempts[i]: the counter of sites[i].name
    fetching,        \* fetching[i]: check() calls awaiting fetch(site.url)
    reading,         \* reading[i]: check() calls awaiting res.text()
    timers,          \* timers[i]: delays of the armed setTimeout calls
    pending,         \* pending[i]: sendMail calls of site i's alerts in flight
    started,         \* started[i]: number of handler() calls made so far
    lastCycle,       \* lastCycle[i]: record of the most recently completed cycle
    streak,          \* streak[i]: failed cycles since the last 200 + readable body
    gaveUp           \* gaveUp[i]: some cycle of site i returned GAVE_UP

vars == <<envPresent, proc, exitCode, failedAttempts, fetching, reading,
          timers, pending, started, lastCycle, streak, gaveUp>>

\* The record kept of a completed check cycle: its number, how the fetch
\* ended, the counter before the cycle, the status check() returned, the
\* alerts it issued, the timer delays handler() armed and the state of its
\* sendMail call.
NoCycle ==
    [n |-> 0, result |-> "none", before |-> 0, status |-> READY,
     alerts |-> <<>>, armed |-> <<>>, send |-> "none"]

RECURSIVE SumTo(_, _)
SumTo(f, n) == IF n = 0 THEN 0 ELSE f[n] + SumTo(f, n - 1)

TotalStarted == SumTo(started, Len(sites))

\* ------------------------------------------------------------ pure parts

\* String.prototype.includes: needle occurs in hay as a contiguous run.
includes(hay, needle) ==
    \E k \in 0..(Len(hay) - Len(needle)) :
        \A j \in 1..Len(needle) : hay[k + j] = needle[j]

\* checkErrorHandler giving up one failure early (>= for >).
checkErrorHandlerOffByOne(n) ==
    LET m == n + 1 IN
    IF m = 1
    THEN [count |-> m, alerts |-> <<"failed_once">>, status |-> COOLDOWN]
    ELSE IF m >= ATTEMPTS_BEFORE_GIVING_UP
         THEN [count |-> m, alerts |-> <<"giving_up">>, status |-> GAVE_UP]
         ELSE [count |-> m, alerts |-> <<>>, status |-> COOLDOWN]

\* checkErrorHandler with the return of the give-up branch missing: the
\* alert is sent and the function falls through to return COOLDOWN.
checkErrorHandlerNoReturn(n) ==
    LET m == n + 1 IN
    IF m = 1
    THEN [count |-> m, alerts |-> <<"failed_once">>, status |-> COOLDOWN]
    ELSE IF m > ATTEMPTS_BEFORE_GIVING_UP
         THEN [count |-> m, alerts |-> <<"giving_up">>, status |-> COOLDOWN]
         ELSE [count |-> m, alerts |-> <<>>, status |-> COOLDOWN]

\* checkErrorHandler giving up one failure late.
checkErrorHandlerLateGiveUp(n) ==
    LET m == n + 1 IN
    IF m = 1
    THEN [count |-> m, alerts |-> <<"failed_once">>, status |-> COOLDOWN]
    ELSE IF m > ATTEMPTS_BEFORE_GIVING_UP + 1
         THEN [count |-> m, alerts |-> <<"giving_up">>, status |-> GAVE_UP]
         ELSE [count |-> m, alerts |-> <<>>, status |-> COOLDOWN]

\* checkErrorHandler: n is failedAttempts[site.name] on entry.  The result
\* gives the counter on exit, the alerts handed to sendAlert and the
\* status returned.
checkErrorHandler(n) ==
    LET m == n + 1 IN
    IF m = 1
    THEN [count |-> m, alerts |-> <<"failed_once">>, status |-> COOLDOWN]
    ELSE IF m > ATTEMPTS_BEFORE_GIVING_UP
         THEN [count |-> m, alerts |-> <<"giving_up">>, status |-> GAVE_UP]
         ELSE [count |-> m, alerts |-> <<>>, status |-> COOLDOWN]

\* check() treating a missing fragment as one more check failure.
checkBodyAsFailure(site, n, html) ==
    IF ~includes(html, site.textMatch)
    THEN checkErrorHandler(n)
    ELSE [count |-> n, alerts |-> <<>>, status |-> WAIT]

\* check() with the test of hasMatch inverted.
checkBodyInverted(site, n, html) ==
    IF includes(html, site.textMatch)
    THEN [count |-> n, alerts |-> <<"contents_changed">>, status |-> COOLDOWN]
    ELSE [count |-> n, alerts |-> <<>>, status |-> WAIT]

\* check() returning READY when the text is found.
checkBodyReady(site, n, html) ==
    IF ~includes(html, site.textMatch)
    THEN [count |-> n, alerts |-> <<"contents_changed">>, status |-> COOLDOWN]
    ELSE [count |-> n, alerts |-> <<>>, status |-> READY]

\* The tail of check() once the body has been read: n is the counter of
\* the site, html the body.
checkBody(site, n, html) ==
    IF ~includes(html, site.textMatch)
    THEN [count |-> n, alerts |-> <<"contents_changed">>, status |-> COOLDOWN]
    ELSE [count |-> n, alerts |-> <<>>, status |-> WAIT]

\* handler() with the GAVE_UP case arming the cooldown timer.
handlerSwitchGaveUpRearms(site, status) ==
    CASE status \in {COOLDOWN, GAVE_UP} ->
            [arm |-> <<site.msgCooldown>>, emit |-> FALSE, exit |-> FALSE]
      [] status = WAIT ->
            [arm |-> <<site.interval>>, emit |-> FALSE, exit |-> FALSE]
      [] status = READY ->
            [arm |-> <<>>, emit |-> TRUE, exit |-> FALSE]
      [] OTHER ->
            [arm |-> <<>>, emit |-> FALSE, exit |-> TRUE]

\* handler() with the WAIT case using the cooldown delay.
handlerSwitchWaitCooldown(site, status) ==
    CASE status \in {COOLDOWN, WAIT} ->
            [arm |-> <<site.msgCooldown>>, emit |-> FALSE, exit |-> FALSE]
      [] status = READY ->
            [arm |-> <<>>, emit |-> TRUE, exit |-> FALSE]
      [] status = GAVE_UP ->
            [arm |-> <<>>, emit |-> FALSE, exit |-> FALSE]
      [] OTHER ->
            [arm |-> <<>>, emit |-> FALSE, exit |-> TRUE]

\* handler() with the break of the WAIT case missing: it arms the timer
\* and falls through to READY, which calls the callback at once.
handlerSwitchNoBreak(site, status) ==
    CASE status = COOLDOWN ->
            [arm |-> <<site.msgCooldown>>, emit |-> FALSE, exit |-> FALSE]
      [] status = WAIT ->
            [arm |-> <<site.interval>>, emit |-> TRUE, exit |-> FALSE]
      [] status = READY ->
            [arm |-> <<>>, emit |-> TRUE, exit |-> FALSE]
      [] status = GAVE_UP ->
            [arm |-> <<>>, emit |-> FALSE, exit |-> FALSE]
      [] OTHER ->
            [arm |-> <<>>, emit |-> FALSE, exit |-> TRUE]

\* handler() with the COOLDOWN case using the normal interval.
handlerSwitchCooldownInterval(site, status) ==
    CASE status \in {COOLDOWN, WAIT} ->
            [arm |-> <<site.interval>>, emit |-> FALSE, exit |-> FALSE]
      [] status = READY ->
            [arm |-> <<>>, emit |-> TRUE, exit |-> FALSE]
      [] status = GAVE_UP ->
            [arm |-> <<>>, emit |-> FALSE, exit |-> FALSE]
      [] OTHER ->
            [arm |-> <<>>, emit |-> FALSE, exit |-> TRUE]

\* The switch of handler(): the timers it arms, whether it emits the
\* site's event at once, and whether it calls process.exit(1).
handlerSwitch(site, status) ==
    CASE status = COOLDOWN ->
            [arm |-> <<site.msgCooldown>>, emit |-> FALSE, exit |-> FALSE]
      [] status = WAIT ->
            [arm |-> <<site.interval>>, emit |-> FALSE, exit |-> FALSE]
      [] status = READY ->
            [arm |-> <<>>, emit |-> TRUE, exit |-> FALSE]
      [] status = GAVE_UP ->
            [arm |-> <<>>, emit |-> FALSE, exit |-> FALSE]
      [] OTHER ->
            [arm |-> <<>>, emit |-> FALSE, exit |-> TRUE]

\* The listener of a site registered twice: every emit runs handler twice.
listenersTwice(registered) == IF registered THEN 2 ELSE 0

\* eventEmitter.emit(site.name): the listeners the event reaches.  Each
\* registered listener runs handler(site) up to its await of fetch.
listeners(registered) == IF registered THEN 1 ELSE 0

\* ----------------------------------------------------------------- Init

Init ==
    /\ envPresent \in BOOLEAN
    /\ proc = "start"
    /\ exitCode = 0
    /\ failedAttempts = [i \in SiteIdx |-> Undefined]
    /\ fetching = [i \in SiteIdx |-> 0]
    /\ reading = [i \in SiteIdx |-> 0]
    /\ timers = [i \in SiteIdx |-> <<>>]
    /\ pending = [i \in SiteIdx |-> 0]
    /\ started = [i \in SiteIdx |-> 0]
    /\ lastCycle = [i \in SiteIdx |-> NoCycle]
    /\ streak = [i \in SiteIdx |-> 0]
    /\ gaveUp = [i \in SiteIdx |-> FALSE]

siteState == <<failedAttempts, fetching, reading, timers, pending, started,
               lastCycle, streak, gaveUp>>

\* -------------------------------------------------------------- startup

\* main(): verifyExistenceOfImportantEnvVars finds a variable missing.
EnvMissing ==
    /\ proc = "start"
    /\ ~envPresent
    /\ proc' = "exited"
    /\ exitCode' = 1
    /\ UNCHANGED <<envPresent, siteState>>

\* main() going on to create and verify the transport without the check
\* of the environment variables.
EnvPresentUnchecked ==
    /\ proc = "start"
    /\ proc' = "verifying"
    /\ UNCHANGED <<envPresent, exitCode, siteState>>

\* main(): both variables are set, the transport is created and main
\* awaits verifyTransport.
EnvPresent ==
    /\ proc = "start"
    /\ envPresent
    /\ proc' = "verifying"
    /\ UNCHANGED <<envPresent, exitCode, siteState>>

\* verifyTransport: transporter.verify fails, the catch block exits.
VerifyFailed ==
    /\ proc = "verifying"
    /\ proc' = "exited"
    /\ exitCode' = 1
    /\ UNCHANGED <<envPresent, siteState>>

\* verifyTransport succeeds and main runs the registration loop: for every
\* site it adds the listener, sets the counter to 0 and emits the first
\* event, which runs handler and check up to the await of fetch.
VerifiedAndRegistered ==
    /\ proc = "verifying"
    /\ proc' = "running"
    /\ failedAttempts' = [i \in SiteIdx |-> 0]
    /\ fetching' = [i \in SiteIdx |-> fetching[i] + listeners(TRUE)]
    /\ started' = [i \in SiteIdx |-> started[i] + listeners(TRUE)]
    /\ UNCHANGED <<envPresent, exitCode, reading, timers, pending,
                   lastCycle, streak, gaveUp>>

\* ---------------------------------------------------------- check cycle

\* The end of a check cycle of site i: check() returns r.status with the
\* counter at r.count after handing r.alerts to sendAlert (not awaited),
\* and handler() runs its switch on the status.
Complete(i, stage, result, r) ==
    LET h == handlerSwitch(sites[i], r.status)
        n == lastCycle[i].n + 1
        again == IF h.emit THEN listeners(TRUE) ELSE 0
    IN
    /\ fetching' = [fetching EXCEPT
                       ![i] = @ - (IF stage = "fetch" THEN 1 ELSE 0) + again]
    /\ reading' = [reading EXCEPT
                      ![i] = @ - (IF stage = "text" THEN 1 ELSE 0)]
    /\ failedAttempts' = [failedAttempts EXCEPT ![i] = r.count]
    /\ pending' = [pending EXCEPT ![i] = @ + Len(r.alerts)]
    /\ timers' = [timers EXCEPT ![i] = @ \o h.arm]
    /\ started' = [started EXCEPT ![i] = @ + again]
    /\ lastCycle' = [lastCycle EXCEPT ![i] =
                        [n |-> n, result |-> result,
                         before |-> failedAttempts[i], status |-> r.status,
                         alerts |-> r.alerts, armed |-> h.arm,
                         send |-> IF r.alerts = <<>> THEN "none"
                                                     ELSE "pending"]]
    /\ streak' = [streak EXCEPT
                     ![i] = IF result \in {"match", "no_match"} THEN 0
                                                                ELSE @ + 1]
    /\ gaveUp' = [gaveUp EXCEPT ![i] = @ \/ r.status = GAVE_UP]
    /\ proc' = IF h.exit THEN "exited" ELSE proc
    /\ exitCode' = IF h.exit THEN 1 ELSE exitCode
    /\ UNCHANGED envPresent

\* fetch(site.url) rejects: network error or timeout.
FetchError(i) ==
    /\ proc = "running"
    /\ fetching[i] > 0
    /\ Complete(i, "fetch", "fetch_error", checkErrorHandler(failedAttempts[i]))

\* fetch resolves with a status other than 200.
BadStatus(i, code) ==
    /\ proc = "running"
    /\ fetching[i] > 0
    /\ code # 200
    /\ Complete(i, "fetch", "bad_status", checkErrorHandler(failedAttempts[i]))

\* fetch resolves with status 200: check goes on to await res.text().
FetchOk(i) ==
    /\ proc = "running"
    /\ fetching[i] > 0
    /\ fetching' = [fetching EXCEPT ![i] = @ - 1]
    /\ reading' = [reading EXCEPT ![i] = @ + 1]
    /\ UNCHANGED <<envPresent, proc, exitCode, failedAttempts, timers,
                   pending, started, lastCycle, streak, gaveUp>>

\* res.text() rejects.
TextError(i) ==
    /\ proc = "running"
    /\ reading[i] > 0
    /\ Complete(i, "text", "text_error", checkErrorHandler(failedAttempts[i]))

\* res.text() resolves with html.
TextOk(i, html) ==
    /\ proc = "running"
    /\ reading[i] > 0
    /\ Complete(i, "text", IF includes(html, sites[i].textMatch) THEN "match"
                                                          ELSE "no_match",
                   checkBody(sites[i], failedAttempts[i], html))

\* The timer armed with setInterval: it fires and stays armed.
TimerFireRepeating(i, k) ==
    /\ proc = "running"
    /\ k \in 1..Len(timers[i])
    /\ TotalStarted < MaxChecks
    /\ fetching' = [fetching EXCEPT ![i] = @ + listeners(TRUE)]
    /\ started' = [started EXCEPT ![i] = @ + listeners(TRUE)]
    /\ UNCHANGED <<envPresent, proc, exitCode, failedAttempts, reading,
                   timers, pending, lastCycle, streak, gaveUp>>

\* An armed timer of site i fires: checkCallback emits the site's event,
\* the listener calls handler, which calls check up to the await of fetch.
TimerFire(i, k) ==
    /\ proc = "running"
    /\ k \in 1..Len(timers[i])
    /\ TotalStarted < MaxChecks
    /\ timers' = [timers EXCEPT
                     ![i] = SubSeq(@, 1, k - 1) \o SubSeq(@, k + 1, Len(@))]
    /\ fetching' = [fetching EXCEPT ![i] = @ + listeners(TRUE)]
    /\ started' = [started EXCEPT ![i] = @ + listeners(TRUE)]
    /\ UNCHANGED <<envPresent, proc, exitCode, failedAttempts, reading,
                   pending, lastCycle, streak, gaveUp>>

\* ---------------------------------------------------------------- mail

\* The sendMail calls of site i in flight that belong to the last completed
\* cycle (last = TRUE) or to an earlier one.
inFlight(i, last) ==
    LET ofLast == IF lastCycle[i].send = "pending"
                  THEN Len(lastCycle[i].alerts) ELSE 0
    IN IF last THEN ofLast ELSE pending[i] - ofLast

settle(cycle, last, outcome) ==
    IF last THEN [cycle EXCEPT !.send = outcome] ELSE cycle

\* transporter.sendMail of an alert of site i resolves: sendAlert logs and
\* its promise, which nobody holds, resolves.
SendOk(i, last) ==
    /\ proc = "running"
    /\ inFlight(i, last) > 0
    /\ pending' = [pending EXCEPT ![i] = @ - 1]
    /\ lastCycle' = [lastCycle EXCEPT ![i] = settle(@, last, "ok")]
    /\ UNCHANGED <<envPresent, proc, exitCode, failedAttempts, fetching,
                   reading, timers, started, streak, gaveUp>>

\* The rejection of sendMail reaching handler(), so that the timer of the
\* cycle is lost.
SendFailLosesTimer(i, last, mode) ==
    /\ proc = "running"
    /\ inFlight(i, last) > 0
    /\ pending' = [pending EXCEPT ![i] = @ - 1]
    /\ lastCycle' = [lastCycle EXCEPT ![i] = settle(@, last, "failed")]
    /\ timers' = [timers EXCEPT ![i] = IF last THEN <<>> ELSE @]
    /\ proc' = IF mode = "throw" THEN "exited" ELSE proc
    /\ exitCode' = IF mode = "throw" THEN 1 ELSE exitCode
    /\ UNCHANGED <<envPresent, failedAttempts, fetching, reading,
                   started, streak, gaveUp>>

\* transporter.sendMail rejects: the await in sendAlert throws, and the
\* promise of sendAlert rejects with no handler attached to it.
SendFail(i, last, mode) ==
    /\ proc = "running"
    /\ inFlight(i, last) > 0
    /\ pending' = [pending EXCEPT ![i] = @ - 1]
    /\ lastCycle' = [lastCycle EXCEPT ![i] = settle(@, last, "failed")]
    /\ proc' = IF mode = "throw" THEN "exited" ELSE proc
    /\ exitCode' = IF mode = "throw" THEN 1 ELSE exitCode
    /\ UNCHANGED <<envPresent, failedAttempts, fetching, reading, timers,
                   started, streak, gaveUp>>

Next ==
    \/ EnvMissing
    \/ EnvPresent
    \/ VerifyFailed
    \/ VerifiedAndRegistered
    \/ \E i \in SiteIdx : FetchError(i)
    \/ \E i \in SiteIdx : \E code \in StatusCodes : BadStatus(i, code)
    \/ \E i \in SiteIdx : FetchOk(i)
    \/ \E i \in SiteIdx : TextError(i)
    \/ \E i \in SiteIdx : \E html \in Bodies : TextOk(i, html)
    \/ \E i \in SiteIdx : \E k \in 1..MaxChecks : TimerFire(i, k)
    \/ \E i \in SiteIdx : \E last \in BOOLEAN : SendOk(i, last)
    \/ \E i \in SiteIdx : \E last \in BOOLEAN :
           \E mode \in UnhandledRejectionModes : SendFail(i, last, mode)

Spec == Init /\ [][Next]_vars

\* The scheduling the event loop and the claims' assumptions give: an armed
\* timer fires, a fetch and a body read end one way or another, and main
\* gets through its startup.  Nothing is assumed of sendMail.
FairSpec ==
    /\ Spec
    /\ WF_vars(EnvMissing \/ EnvPresent)
    /\ WF_vars(VerifyFailed \/ VerifiedAndRegistered)
    /\ \A i \in SiteIdx :
          /\ WF_vars(\E k \in 1..MaxChecks : TimerFire(i, k))
          /\ WF_vars(FetchError(i) \/ FetchOk(i)
                        \/ \E code \in StatusCodes : BadStatus(i, code))
          /\ WF_vars(TextError(i) \/ \E html \in Bodies : TextOk(i, html))

TypeOK ==
    /\ envPresent \in BOOLEAN
    /\ proc \in {"start", "verifying", "running", "exited"}
    /\ exitCode \in {0, 1}
    /\ \A i \in SiteIdx :
          /\ failedAttempts[i] \in Nat \cup {Undefined}
          /\ fetching[i] \in Nat
          /\ reading[i] \in Nat
          /\ pending[i] \in Nat
          /\ started[i] \in Nat
          /\ lastCycle[i].status \in STATUS

\* ------------------------------------------------------------ properties

Failures == {"fetch_error", "bad_status", "text_error"}
Fetched200 == {"match", "no_match"}

\* C1: after any check cycle whose fetch returned 200 with a readable body,
\* the failure counter of the site is 0, text found or not.
C1_ResetAfter200 ==
    \A i \in SiteIdx :
        lastCycle[i].result \in Fetched200 => failedAttempts[i] = 0

\* C2: whenever a check cycle returns GAVE_UP, the four most recent cycles
\* of the site all failed, with no 200 + readable body in between.
C2_GaveUpAfterFourInARow ==
    \A i \in SiteIdx :
        lastCycle[i].status = GAVE_UP =>
            streak[i] >= ATTEMPTS_BEFORE_GIVING_UP + 1

\* C3: the failed check that raises the counter to 1 sends exactly one
\* "failed once" alert, one that raises it to 2 or 3 sends none, the one
\* that raises it to 4 sends exactly one "giving up" alert and returns
\* GAVE_UP.
C3_AlertPerFailure ==
    \A i \in SiteIdx :
        lastCycle[i].result \in Failures =>
            /\ failedAttempts[i] = lastCycle[i].before + 1
            /\ failedAttempts[i] \in 1..4
            /\ failedAttempts[i] = 1 =>
                   lastCycle[i].alerts = <<"failed_once">>
            /\ failedAttempts[i] \in {2, 3} => lastCycle[i].alerts = <<>>
            /\ failedAttempts[i] = 4 =>
                   /\ lastCycle[i].alerts = <<"giving_up">>
                   /\ lastCycle[i].status = GAVE_UP

C3_Witness ==
    \E i \in SiteIdx :
        /\ lastCycle[i].result \in Failures
        /\ failedAttempts[i] = 4
        /\ lastCycle[i].alerts = <<"giving_up">>

\* C4: once a cycle of a site has returned GAVE_UP, the site has no timer
\* armed and no check in flight, and no further check of it ever starts.
C4_GaveUpTerminal ==
    /\ [](\A i \in SiteIdx :
            gaveUp[i] => /\ timers[i] = <<>>
                         /\ fetching[i] + reading[i] = 0)
    /\ [][\A i \in SiteIdx :
            gaveUp[i] => /\ started'[i] = started[i]
                         /\ timers'[i] = <<>>
                         /\ lastCycle'[i].n = lastCycle[i].n]_vars

C4_Witness ==
    \E i, j \in SiteIdx :
        /\ gaveUp[i]
        /\ proc = "running"
        /\ i # j
        /\ started[j] > 1

\* C5: a cycle whose fetch returns 200 with a body containing textMatch
\* returns WAIT, sends no alert and arms exactly one timer of site.interval,
\* whatever the failure counter.
C5_MatchWaits ==
    \A i \in SiteIdx :
        lastCycle[i].result = "match" =>
            /\ lastCycle[i].status = WAIT
            /\ lastCycle[i].alerts = <<>>
            /\ lastCycle[i].armed = <<sites[i].interval>>
            /\ timers[i] \in {<<>>, <<sites[i].interval>>}

C5_Witness ==
    \E i \in SiteIdx :
        /\ lastCycle[i].result = "match"
        /\ lastCycle[i].before = ATTEMPTS_BEFORE_GIVING_UP
        /\ timers[i] = <<sites[i].interval>>

\* C6: a cycle whose fetch returns 200 with a body lacking textMatch
\* returns COOLDOWN, sends exactly one "contents changed" alert and arms
\* exactly one timer of site.msgCooldown, whatever the failure counter.
C6_NoMatchCoolsDown ==
    \A i \in SiteIdx :
        lastCycle[i].result = "no_match" =>
            /\ lastCycle[i].status = COOLDOWN
            /\ lastCycle[i].alerts = <<"contents_changed">>
            /\ lastCycle[i].armed = <<sites[i].msgCooldown>>
            /\ timers[i] \in {<<>>, <<sites[i].msgCooldown>>}
            /\ failedAttempts[i] = lastCycle[i].before

C6_Witness ==
    \E i \in SiteIdx :
        /\ lastCycle[i].result = "no_match"
        /\ lastCycle[i].before = ATTEMPTS_BEFORE_GIVING_UP
        /\ timers[i] = <<sites[i].msgCooldown>>
        /\ lastCycle[i].send = "pending"

\* C7: at most one check cycle of a site is in flight at any time.
C7_OneCheckInFlight ==
    \A i \in SiteIdx : fetching[i] + reading[i] <= 1

C7_Witness ==
    \E i \in SiteIdx :
        /\ lastCycle[i].n >= 2
        /\ reading[i] = 1
        /\ pending[i] >= 2

\* C8 as claimed: no state has a timer of a site armed while an alert send
\* of the site's current cycle is still pending.
C8_TimerAfterSendDone ==
    \A i \in SiteIdx :
        ~(timers[i] # <<>> /\ lastCycle[i].send = "pending")

\* C8 as amended: a timer of a site is armed only once the current cycle
\* has returned its status and handed its alert to the notifier; the send
\* is not awaited and may still be pending.
C8_TimerAfterCheckReturned ==
    \A i \in SiteIdx :
        timers[i] # <<>> =>
            /\ fetching[i] + reading[i] = 0
            /\ lastCycle[i].n = started[i]
            /\ timers[i] = lastCycle[i].armed
            /\ lastCycle[i].send = "pending" =>
                   pending[i] >= Len(lastCycle[i].alerts)

C8_Witness ==
    \E i \in SiteIdx :
        /\ timers[i] # <<>>
        /\ lastCycle[i].send = "pending"
        /\ lastCycle[i].alerts = <<"failed_once">>

\* C9: when a notification send fails the process does not terminate and
\* the failure counter is what it would be had the send succeeded.
C9_SendFailureSwallowed ==
    \A i \in SiteIdx :
        lastCycle[i].send = "failed" =>
            /\ proc = "running"
            /\ failedAttempts[i] =
                   lastCycle[i].before
                   + (IF lastCycle[i].result \in Failures THEN 1 ELSE 0)

\* C10: for the same fetch result and failure counter a cycle returns the
\* same status and arms the same timer whether its notification send
\* succeeds, fails or is still pending, and the settling of a send changes
\* neither the counter nor the timers nor the checks in flight.
C10_SendOutcomeIrrelevant ==
    /\ [](\A i \in SiteIdx :
            LET c == lastCycle[i] IN
            /\ c.result = "match" =>
                   c.status = WAIT /\ c.armed = <<sites[i].interval>>
            /\ c.result = "no_match" =>
                   c.status = COOLDOWN /\ c.armed = <<sites[i].msgCooldown>>
            /\ c.result \in Failures /\ c.before < 3 =>
                   c.status = COOLDOWN /\ c.armed = <<sites[i].msgCooldown>>
            /\ c.result \in Failures /\ c.before >= 3 =>
                   c.status = GAVE_UP /\ c.armed = <<>>)
    /\ [][\A i \in SiteIdx :
            pending'[i] < pending[i] =>
                /\ timers'[i] = timers[i]
                /\ failedAttempts'[i] = failedAttempts[i]
                /\ fetching'[i] = fetching[i]
                /\ reading'[i] = reading[i]
                /\ lastCycle'[i].status = lastCycle[i].status
                /\ lastCycle'[i].armed = lastCycle[i].armed]_vars

C10_Witness ==
    \E i \in SiteIdx :
        /\ lastCycle[i].send = "failed"
        /\ lastCycle[i].result = "no_match"
        /\ timers[i] = <<sites[i].msgCooldown>>
        /\ proc = "running"

\* C11: every per-check failure (fetch error, non-200 status, body-read
\* error) raises the counter by exactly one, does not terminate the process,
\* and resolves to COOLDOWN with a msgCooldown timer when the raised counter
\* is at most 3 and to GAVE_UP when it is greater; never to WAIT or READY.
C11_FailureResolves ==
    /\ [](\A i \in SiteIdx :
            lastCycle[i].result \in Failures =>
                /\ failedAttempts[i] = lastCycle[i].before + 1
                /\ lastCycle[i].status \in {COOLDOWN, GAVE_UP}
                /\ failedAttempts[i] <= 3 =>
                       /\ lastCycle[i].status = COOLDOWN
                       /\ lastCycle[i].armed = <<sites[i].msgCooldown>>
                /\ failedAttempts[i] > 3 =>
                       /\ lastCycle[i].status = GAVE_UP
                       /\ lastCycle[i].armed = <<>>)
    /\ [][\A i \in SiteIdx :
            /\ lastCycle'[i].n > lastCycle[i].n
            /\ lastCycle'[i].result \in Failures
            => /\ proc' = "running"
               /\ failedAttempts'[i] = failedAttempts[i] + 1
               /\ timers'[i] = timers[i] \o lastCycle'[i].armed]_vars

C11_Witness ==
    \E i \in SiteIdx :
        /\ lastCycle[i].result = "text_error"
        /\ failedAttempts[i] = 3
        /\ timers[i] = <<sites[i].msgCooldown>>
        /\ proc = "running"

\* C12: no check starts and no timer is armed unless both credentials were
\* present and the transport verification succeeded before; with a
\* credential missing or the verification failed the process exits with a
\* non-zero code, no check started and no timer armed.
C12_NoCheckBeforeVerified ==
    /\ [](\A i \in SiteIdx :
            started[i] > 0 \/ fetching[i] > 0 \/ timers[i] # <<>>
                => envPresent /\ proc \in {"running", "exited"})
    /\ [](~envPresent => proc \in {"start", "exited"})
    /\ [](proc = "exited" /\ (\A i \in SiteIdx : failedAttempts[i] = Undefined)
            => /\ exitCode = 1
               /\ \A i \in SiteIdx :
                     started[i] = 0 /\ fetching[i] = 0 /\ timers[i] = <<>>)
    /\ [][\A i \in SiteIdx :
            started'[i] > started[i] =>
                /\ envPresent
                /\ \/ proc = "verifying" /\ proc' = "running"
                   \/ proc = "running"]_vars

C12_Witness ==
    /\ proc = "exited"
    /\ envPresent
    /\ exitCode = 1
    /\ \A i \in SiteIdx : started[i] = 0 /\ failedAttempts[i] = Undefined

\* The state of one site: a step of site i is one that changes siteVars(i).
siteVars(i) ==
    <<failedAttempts[i], fetching[i], reading[i], timers[i], pending[i],
      started[i], lastCycle[i], streak[i], gaveUp[i]>>

\* C13: a step of one site (a check cycle, a failure, an alert send, a
\* give-up) changes nothing of another site: not its counter, not its
\* timers, not its checks, and it leaves the other site's checks able to
\* start.
C13_SitesIndependent ==
    [][\A i, j \in SiteIdx :
        i # j /\ proc = "running" /\ siteVars(i)' # siteVars(i)
            => /\ siteVars(j)' = siteVars(j)
               /\ proc' = "running"]_vars

\* C14: every site has its first check started by the registration loop,
\* and after a cycle that returned WAIT or COOLDOWN another check of the
\* site eventually starts (as long as the model's budget of checks lasts).
C14_MonitoringContinues ==
    /\ [](\A i \in SiteIdx : failedAttempts[i] # Undefined => started[i] >= 1)
    /\ \A i \in SiteIdx :
          (/\ lastCycle[i].n > 0
           /\ lastCycle[i].n = started[i]
           /\ lastCycle[i].status \in {WAIT, COOLDOWN}
           /\ TotalStarted < MaxChecks)
          ~> (fetching[i] > 0 \/ TotalStarted >= MaxChecks)

\* C15: a "giving up" alert is sent only by a cycle of a site that had not
\* given up before, that cycle sends exactly one and returns GAVE_UP, and no
\* later cycle of the site sends another: at most one per site.
C15_GivingUpOnce ==
    /\ [](\A i \in SiteIdx :
            (\E k \in 1..Len(lastCycle[i].alerts) :
                 lastCycle[i].alerts[k] = "giving_up")
            => /\ lastCycle[i].alerts = <<"giving_up">>
               /\ lastCycle[i].status = GAVE_UP
               /\ gaveUp[i])
    /\ [][\A i \in SiteIdx :
            /\ lastCycle'[i].n > lastCycle[i].n
            /\ \E k \in 1..Len(lastCycle'[i].alerts) :
                   lastCycle'[i].alerts[k] = "giving_up"
            => ~gaveUp[i] /\ gaveUp'[i]]_vars
    /\ [][\A i \in SiteIdx :
            gaveUp[i] => lastCycle'[i].n = lastCycle[i].n]_vars

C15_Witness ==
    \E i \in SiteIdx :
        /\ gaveUp[i]
        /\ lastCycle[i].alerts = <<"giving_up">>
        /\ lastCycle[i].send = "ok"
        /\ proc = "running"

\* C16: a check against a fresh state (counter 0) is a function of the fetch
\* outcome and of whether the body contains textMatch: the status returned
\* and the alert decision are the same for the same input.
C16_FreshCheckDeterministic ==
    \A i \in SiteIdx :
        lastCycle[i].n > 0 /\ lastCycle[i].before = 0 =>
            /\ lastCycle[i].result = "match" =>
                   lastCycle[i].status = WAIT /\ lastCycle[i].alerts = <<>>
            /\ lastCycle[i].result = "no_match" =>
                   /\ lastCycle[i].status = COOLDOWN
                   /\ lastCycle[i].alerts = <<"contents_changed">>
            /\ lastCycle[i].result \in Failures =>
                   /\ lastCycle[i].status = COOLDOWN
                   /\ lastCycle[i].alerts = <<"failed_once">>

C16_Witness ==
    \E i, j \in SiteIdx :
        /\ i # j
        /\ lastCycle[i].before = 0 /\ lastCycle[j].before = 0
        /\ lastCycle[i].result = "match" /\ lastCycle[j].result = "match"
        /\ lastCycle[i].n = 1 /\ lastCycle[j].n = 2

\* C17: the status a cycle hands to handler() is COOLDOWN, WAIT or GAVE_UP,
\* never READY or an unknown value: the end of a cycle never starts the next
\* check at once and never takes the process.exit of the default case.
C17_StatusKnown ==
    /\ [](\A i \in SiteIdx :
            lastCycle[i].n > 0 =>
                lastCycle[i].status \in {COOLDOWN, WAIT, GAVE_UP})
    /\ [][\A i \in SiteIdx :
            lastCycle'[i].n > lastCycle[i].n =>
                /\ started'[i] = started[i]
                /\ fetching'[i] + reading'[i] = fetching[i] + reading[i] - 1
                /\ proc' = proc]_vars

C17_Witness ==
    \E i \in SiteIdx :
        /\ lastCycle[i].n = 3
        /\ lastCycle[i].status = WAIT
        /\ started[i] = 3
        /\ timers[i] # <<>>

\* C18: the counter of a registered site is between 0 and 4, and it is 4
\* only if the site has given up.
C18_CounterRange ==
    \A i \in SiteIdx :
        failedAttempts[i] # Undefined =>
            /\ failedAttempts[i] \in 0..(ATTEMPTS_BEFORE_GIVING_UP + 1)
            /\ failedAttempts[i] = ATTEMPTS_BEFORE_GIVING_UP + 1 => gaveUp[i]

C18_Witness ==
    \E i, j \in SiteIdx :
        /\ failedAttempts[i] = ATTEMPTS_BEFORE_GIVING_UP + 1
        /\ gaveUp[i]
        /\ failedAttempts[j] = 1
        /\ ~gaveUp[j]

\* C19: for a registered site exactly one holds: one check is in flight,
\* exactly one timer is armed, or the site has given up; never two timers,
\* never a timer together with a check in flight.
C19_ExactlyOneMode ==
    \A i \in SiteIdx :
        failedAttempts[i] # Undefined =>
            \/ /\ fetching[i] + reading[i] = 1
               /\ timers[i] = <<>>
               /\ ~gaveUp[i]
            \/ /\ fetching[i] + reading[i] = 0
               /\ Len(timers[i]) = 1
               /\ ~gaveUp[i]
            \/ /\ fetching[i] + reading[i] = 0
               /\ timers[i] = <<>>
               /\ gaveUp[i]

C19_Witness ==
    \E i, j \in SiteIdx :
        /\ gaveUp[i]
        /\ Len(timers[j]) = 1
        /\ lastCycle[j].n >= 1
        /\ proc = "running"

====
